---- MODULE Spec2Model ----
(***************************************************************************)
(* State-machine model of sudoku-win.cpp: the SudokuBoard class (diagonal  *)
(* seeding, recursive backtracking fill, carving of empty cells, the       *)
(* solved test) and the menu / move loop of main.                          *)
(***************************************************************************)
EXTENDS Integers, Sequences, FiniteSets, TLC

\* ---- program constants (the #define lines) ----
N == 9
MINI_BOX_SIZE == 3
EASY_LVL == 13
MEDIUM_LVL == 29
HARD_LVL == 41

\* ---- bounds of the model ----
\* time(0) at a Start Game is one of 1..MaxTime
MaxTime == 3
\* the user enters a non-solution value only in one of the first MaxWrongMove
\* successful moves of a session
MaxWrongMove == 1
\* the user fills the empty cells in row-major order, and in any order once at
\* most MaxFree of them are left
MaxFree == 3
\* the seeded grids of SpecFill rotate each diagonal box by 0..MaxShift
MaxShift == 3

VARIABLES
    pc,          \* position of main / fillValues
    emptyCells,  \* SudokuBoard::emptyCells
    solved,      \* SudokuBoard::solved
    unsolved,    \* SudokuBoard::unsolved
    holdrand,    \* state of the C runtime's rand()
    diag,        \* fillDiagonal's i (top-left corner of the box being filled)
    bi, bj,      \* fillBox's i and j
    stack,       \* activation records of fillRemaining, innermost last
    ret,         \* value returned by the fillRemaining call that just ended
    count,       \* addEmptyCells' count
    row, col, val, \* the move loop's row, col, val
    outcome      \* what the last move reported

vars == <<pc, emptyCells, solved, unsolved, holdrand, diag, bi, bj, stack, ret,
          count, row, col, val, outcome>>

Idx == 0 .. N - 1
\* row, col or val before cin reads it: a value no input takes
NoInput == 0 - N * N
ZeroBoard == [i \in Idx |-> [j \in Idx |-> 0]]

\* ---- rand(), srand() ----
\* The C runtime's linear congruential generator (holdrand * 214013 + 2531011,
\* high bits returned), on an 11-bit word so that its period is finite here.
NextRand(h) == (h * 214013 + 2531011) % 2048
RandValue(h) == h \div 16
srand(seed) == seed % 2048

\* randomGenerator(num), applied to the value rand() returned
randomGenerator(r, num) == (r % num) + 1

\* ---- SudokuBoard ----
isAbsentInBox(rowStart, colStart, num) ==
    \A i \in 0 .. MINI_BOX_SIZE - 1 : \A j \in 0 .. MINI_BOX_SIZE - 1 :
        unsolved[rowStart + i][colStart + j] # num

isAbsentInRow(i, num) == \A j \in 0 .. N - 1 : unsolved[i][j] # num

isAbsentInCol(j, num) == \A i \in 0 .. N - 1 : unsolved[i][j] # num

\* checkIfSafe without the column test
checkIfSafeNoColumn(i, j, num) ==
    /\ isAbsentInRow(i, num)
    /\ isAbsentInBox(i - (i % MINI_BOX_SIZE), j - (j % MINI_BOX_SIZE), num)

checkIfSafe(i, j, num) ==
    /\ isAbsentInRow(i, num)
    /\ isAbsentInCol(j, num)
    /\ isAbsentInBox(i - (i % MINI_BOX_SIZE), j - (j % MINI_BOX_SIZE), num)

\* resetBoard that leaves the board as it is
resetBoardSkipped == unsolved

resetBoard == [i \in Idx |-> [j \in Idx |-> 0]]

\* isBoardSolved that only tests for empty cells
isBoardSolvedNonZero(u, s) ==
    \A i \in 0 .. N - 1 : \A j \in 0 .. N - 1 : ~(u[i][j] = 0)

isBoardSolvedOf(u, s) ==
    \A i \in 0 .. N - 1 : \A j \in 0 .. N - 1 :
        ~(u[i][j] = 0 \/ u[i][j] # s[i][j])

isBoardSolved == isBoardSolvedOf(unsolved, solved)

\* ---- main: menu ----
Init ==
    /\ pc = "HomeScreen"
    /\ emptyCells = 0
    /\ solved = ZeroBoard
    /\ unsolved = ZeroBoard
    /\ holdrand = 1
    /\ diag = 0 /\ bi = 0 /\ bj = 0
    /\ stack = << >>
    /\ ret = "none"
    /\ count = 0
    /\ row = NoInput /\ col = NoInput /\ val = NoInput
    /\ outcome = "None"

HomeTarget(choice) ==
    CASE choice = 1 -> "StartGame"
      [] choice = 4 -> "ExitGame"
      [] OTHER -> "HomeScreen"

HomeScreen ==
    /\ pc = "HomeScreen"
    /\ \E choice \in 0 .. 4 : pc' = HomeTarget(choice)
    /\ UNCHANGED <<emptyCells, solved, unsolved, holdrand, diag, bi, bj, stack,
                   ret, count, row, col, val, outcome>>

Level(choice) ==
    CASE choice = 1 -> EASY_LVL
      [] choice = 2 -> MEDIUM_LVL
      [] choice = 3 -> HARD_LVL
      [] OTHER -> EASY_LVL

\* srand, the difficulty prompt, resetBoard, and the entry of fillValues
StartGame ==
    /\ pc = "StartGame"
    /\ \E t \in 1 .. MaxTime : holdrand' = srand(t)
    /\ \E choice \in 0 .. 4 : emptyCells' = Level(choice)
    /\ unsolved' = resetBoard
    /\ pc' = "fillBox"
    /\ diag' = 0 /\ bi' = 0 /\ bj' = 0
    /\ UNCHANGED <<solved, stack, ret, count, row, col, val, outcome>>

\* ---- fillDiagonal / fillBox: one draw of the do-while loop per step ----
FillBoxDraw == randomGenerator(RandValue(NextRand(holdrand)), N)

FillBoxRetry ==
    /\ pc = "fillBox"
    /\ ~isAbsentInBox(diag, diag, FillBoxDraw)
    /\ holdrand' = NextRand(holdrand)
    /\ UNCHANGED <<pc, emptyCells, solved, unsolved, diag, bi, bj, stack, ret,
                   count, row, col, val, outcome>>

FillBoxAccept ==
    /\ pc = "fillBox"
    /\ isAbsentInBox(diag, diag, FillBoxDraw)
    /\ holdrand' = NextRand(holdrand)
    /\ unsolved' = [unsolved EXCEPT ![diag + bi][diag + bj] = FillBoxDraw]
    /\ IF bj + 1 < MINI_BOX_SIZE
       THEN /\ bj' = bj + 1
            /\ UNCHANGED <<pc, diag, bi, stack>>
       ELSE IF bi + 1 < MINI_BOX_SIZE
       THEN /\ bi' = bi + 1 /\ bj' = 0
            /\ UNCHANGED <<pc, diag, stack>>
       ELSE IF diag + MINI_BOX_SIZE < N
       THEN /\ diag' = diag + MINI_BOX_SIZE /\ bi' = 0 /\ bj' = 0
            /\ UNCHANGED <<pc, stack>>
       ELSE /\ diag' = 0 /\ bi' = 0 /\ bj' = 0
            /\ pc' = "fillRemaining"
            /\ stack' = << [i |-> 0, j |-> MINI_BOX_SIZE, num |-> 0] >>
    /\ UNCHANGED <<emptyCells, solved, ret, count, row, col, val, outcome>>

\* the head of fillRemaining without the skip of the middle diagonal box
AdvanceNoSkip(i, j) ==
    LET a == IF j >= N /\ i < N - 1 THEN [i |-> i + 1, j |-> 0, done |-> FALSE]
                                    ELSE [i |-> i, j |-> j, done |-> FALSE]
    IN  IF a.i >= N /\ a.j >= N THEN [a EXCEPT !.done = TRUE]
        ELSE IF a.i < MINI_BOX_SIZE
        THEN (IF a.j < MINI_BOX_SIZE THEN [a EXCEPT !.j = MINI_BOX_SIZE] ELSE a)
        ELSE IF a.i < N - MINI_BOX_SIZE
        THEN a
        ELSE IF a.j = N - MINI_BOX_SIZE
        THEN (IF a.i + 1 >= N THEN [i |-> a.i + 1, j |-> 0, done |-> TRUE]
                              ELSE [i |-> a.i + 1, j |-> 0, done |-> FALSE])
        ELSE a

\* ---- fillRemaining ----
\* The head of fillRemaining(i, j), before its for loop: the cell the call
\* works on, or done when the call returns true at once.
Advance(i, j) ==
    LET a == IF j >= N /\ i < N - 1 THEN [i |-> i + 1, j |-> 0, done |-> FALSE]
                                    ELSE [i |-> i, j |-> j, done |-> FALSE]
    IN  IF a.i >= N /\ a.j >= N THEN [a EXCEPT !.done = TRUE]
        ELSE IF a.i < MINI_BOX_SIZE
        THEN (IF a.j < MINI_BOX_SIZE THEN [a EXCEPT !.j = MINI_BOX_SIZE] ELSE a)
        ELSE IF a.i < N - MINI_BOX_SIZE
        THEN (IF a.j = (a.i \div MINI_BOX_SIZE) * MINI_BOX_SIZE
              THEN [a EXCEPT !.j = a.j + MINI_BOX_SIZE] ELSE a)
        ELSE IF a.j = N - MINI_BOX_SIZE
        THEN (IF a.i + 1 >= N THEN [i |-> a.i + 1, j |-> 0, done |-> TRUE]
                              ELSE [i |-> a.i + 1, j |-> 0, done |-> FALSE])
        ELSE a

Top == stack[Len(stack)]
Pop == SubSeq(stack, 1, Len(stack) - 1)
SetTop(f) == [stack EXCEPT ![Len(stack)] = f]

\* a call starts: lines 137-171
FillRemainingEnter ==
    /\ pc = "fillRemaining" /\ stack # << >> /\ ret = "none"
    /\ Top.num = 0
    /\ LET a == Advance(Top.i, Top.j)
       IN  IF a.done
           THEN stack' = Pop /\ ret' = "true"
           ELSE stack' = SetTop([i |-> a.i, j |-> a.j, num |-> 1]) /\ ret' = ret
    /\ UNCHANGED <<pc, emptyCells, solved, unsolved, holdrand, diag, bi, bj,
                   count, row, col, val, outcome>>

\* one iteration of the for loop whose num is not safe
FillRemainingSkip ==
    /\ pc = "fillRemaining" /\ stack # << >> /\ ret = "none"
    /\ Top.num >= 1 /\ Top.num <= N
    /\ ~checkIfSafe(Top.i, Top.j, Top.num)
    /\ stack' = SetTop([Top EXCEPT !.num = Top.num + 1])
    /\ UNCHANGED <<pc, emptyCells, solved, unsolved, holdrand, diag, bi, bj, ret,
                   count, row, col, val, outcome>>

\* one iteration whose num is safe: the write and the recursive call
FillRemainingPlace ==
    /\ pc = "fillRemaining" /\ stack # << >> /\ ret = "none"
    /\ Top.num >= 1 /\ Top.num <= N
    /\ checkIfSafe(Top.i, Top.j, Top.num)
    /\ unsolved' = [unsolved EXCEPT ![Top.i][Top.j] = Top.num]
    /\ stack' = Append(stack, [i |-> Top.i, j |-> Top.j + 1, num |-> 0])
    /\ UNCHANGED <<pc, emptyCells, solved, holdrand, diag, bi, bj, ret,
                   count, row, col, val, outcome>>

\* the recursive call returned false: undo and go on with the next num
FillRemainingUndo ==
    /\ pc = "fillRemaining" /\ stack # << >> /\ ret = "false"
    /\ unsolved' = [unsolved EXCEPT ![Top.i][Top.j] = 0]
    /\ stack' = SetTop([Top EXCEPT !.num = Top.num + 1])
    /\ ret' = "none"
    /\ UNCHANGED <<pc, emptyCells, solved, holdrand, diag, bi, bj,
                   count, row, col, val, outcome>>

\* the for loop ran out of values: return false
FillRemainingFail ==
    /\ pc = "fillRemaining" /\ stack # << >> /\ ret = "none"
    /\ Top.num > N
    /\ stack' = Pop
    /\ ret' = "false"
    /\ UNCHANGED <<pc, emptyCells, solved, unsolved, holdrand, diag, bi, bj,
                   count, row, col, val, outcome>>

\* the recursive call returned true: return true
FillRemainingReturn ==
    /\ pc = "fillRemaining" /\ stack # << >> /\ ret = "true"
    /\ stack' = Pop
    /\ UNCHANGED <<pc, emptyCells, solved, unsolved, holdrand, diag, bi, bj, ret,
                   count, row, col, val, outcome>>

\* fillValues after fillRemaining(0, MINI_BOX_SIZE) returned (its result is
\* ignored): solved = unsolved, and the entry of addEmptyCells
FillValuesCopy ==
    /\ pc = "fillRemaining" /\ stack = << >> /\ ret # "none"
    /\ solved' = unsolved
    /\ count' = emptyCells
    /\ ret' = "none"
    /\ pc' = "addEmptyCells"
    /\ UNCHANGED <<emptyCells, unsolved, holdrand, diag, bi, bj, stack,
                   row, col, val, outcome>>

\* ---- addEmptyCells: one draw of the while loop per step ----
CellId == randomGenerator(RandValue(NextRand(holdrand)), N * N) - 1

AddEmptyCellsClear ==
    /\ pc = "addEmptyCells" /\ count # 0
    /\ unsolved[CellId \div N][CellId % N] # 0
    /\ holdrand' = NextRand(holdrand)
    /\ count' = count - 1
    /\ unsolved' = [unsolved EXCEPT ![CellId \div N][CellId % N] = 0]
    /\ UNCHANGED <<pc, emptyCells, solved, diag, bi, bj, stack, ret,
                   row, col, val, outcome>>

\* addEmptyCells counting a draw of an already empty cell
AddEmptyCellsRedrawCounts ==
    /\ pc = "addEmptyCells" /\ count # 0
    /\ unsolved[CellId \div N][CellId % N] = 0
    /\ holdrand' = NextRand(holdrand)
    /\ count' = count - 1
    /\ UNCHANGED <<pc, emptyCells, solved, unsolved, diag, bi, bj, stack, ret,
                   row, col, val, outcome>>

AddEmptyCellsRedraw ==
    /\ pc = "addEmptyCells" /\ count # 0
    /\ unsolved[CellId \div N][CellId % N] = 0
    /\ holdrand' = NextRand(holdrand)
    /\ UNCHANGED <<pc, emptyCells, solved, unsolved, diag, bi, bj, stack, ret,
                   count, row, col, val, outcome>>

\* addEmptyCells and fillValues return; the test of the move loop
AddEmptyCellsDone ==
    /\ pc = "addEmptyCells" /\ count = 0
    /\ pc' = IF isBoardSolved THEN "HomeScreen" ELSE "Playing"
    /\ UNCHANGED <<emptyCells, solved, unsolved, holdrand, diag, bi, bj, stack,
                   ret, count, row, col, val, outcome>>

Generate ==
    \/ FillBoxRetry \/ FillBoxAccept
    \/ FillRemainingEnter \/ FillRemainingSkip \/ FillRemainingPlace
    \/ FillRemainingUndo \/ FillRemainingFail \/ FillRemainingReturn
    \/ FillValuesCopy
    \/ AddEmptyCellsClear \/ AddEmptyCellsRedraw \/ AddEmptyCellsDone

\* ---- main: the move loop ----
CellIds == 0 .. N * N - 1
EmptyIds == {c \in CellIds : unsolved[c \div N][c % N] = 0}
FilledIds == CellIds \ EmptyIds
MinOf(S) == CHOOSE x \in S : \A y \in S : x <= y

\* successful moves of the session so far
MovesMade == emptyCells - Cardinality(EmptyIds)

\* the cells the user aims at
TargetIds ==
    (IF EmptyIds = {} THEN {}
     ELSE IF Cardinality(EmptyIds) <= MaxFree THEN EmptyIds
     ELSE {MinOf(EmptyIds)})
    \cup (IF FilledIds = {} THEN {} ELSE {MinOf(FilledIds)})

\* the row and column the user enters: a cell aimed at, the quit sentinel, or a
\* coordinate past either end of the range
UserTargets ==
    {<<(c \div N) + 1, (c % N) + 1>> : c \in TargetIds}
    \cup {<<0, 1>>, <<1, 0>>, <<N + 1, 1>>, <<1, -1>>}

InRange(r, c) == (r - 1) \in Idx /\ (c - 1) \in Idx

\* the value the user enters
UserValues(r, c) ==
    IF InRange(r, c) /\ unsolved[r - 1][c - 1] = 0
    THEN (IF MovesMade < MaxWrongMove THEN -1 .. N + 1
          ELSE {-1, 0, N + 1, solved[r - 1][c - 1]})
    ELSE IF InRange(r, c) THEN -1 .. N + 1
    ELSE {0, 1}

\* what board.unsolved[row - 1][col - 1] of line 393 yields. vector::operator[]
\* does not check its index: out of 0..8 the read is undefined, and it yields
\* some value (zero or not) or ends the program.
FaultRead == 0 - 1
ReadCell(r, c) ==
    IF InRange(r, c) THEN {unsolved[r - 1][c - 1]} ELSE {FaultRead, 0, 1}

\* the loop body asking for the value before it tests the cell
MoveResultValueFirst(r, c, v, cell) ==
    IF r = 0
    THEN [outcome |-> "QuitRequested", row |-> r, col |-> NoInput, val |-> NoInput,
          write |-> FALSE]
    ELSE IF c = 0
    THEN [outcome |-> "QuitRequested", row |-> r, col |-> c, val |-> NoInput,
          write |-> FALSE]
    ELSE IF v = 0
    THEN [outcome |-> "QuitRequested", row |-> r, col |-> c, val |-> v,
          write |-> FALSE]
    ELSE IF cell = FaultRead
    THEN [outcome |-> "Fault", row |-> r, col |-> c, val |-> v, write |-> FALSE]
    ELSE IF cell # 0
    THEN [outcome |-> "CellOccupied", row |-> r, col |-> c, val |-> v,
          write |-> FALSE]
    ELSE IF r < 1 \/ r > N \/ c < 1 \/ c > N \/ v < 1 \/ v > N
    THEN [outcome |-> "InvalidCoordinate", row |-> r, col |-> c, val |-> v,
          write |-> FALSE]
    ELSE [outcome |-> "Success", row |-> r, col |-> c, val |-> v, write |-> TRUE]

\* the loop body without the range test of the value
MoveResultNoValueCheck(r, c, v, cell) ==
    IF r = 0
    THEN [outcome |-> "QuitRequested", row |-> r, col |-> NoInput, val |-> NoInput,
          write |-> FALSE]
    ELSE IF c = 0
    THEN [outcome |-> "QuitRequested", row |-> r, col |-> c, val |-> NoInput,
          write |-> FALSE]
    ELSE IF cell = FaultRead
    THEN [outcome |-> "Fault", row |-> r, col |-> c, val |-> NoInput,
          write |-> FALSE]
    ELSE IF cell # 0
    THEN [outcome |-> "CellOccupied", row |-> r, col |-> c, val |-> NoInput,
          write |-> FALSE]
    ELSE IF v = 0
    THEN [outcome |-> "QuitRequested", row |-> r, col |-> c, val |-> v,
          write |-> FALSE]
    ELSE IF r < 1 \/ r > N \/ c < 1 \/ c > N
    THEN [outcome |-> "InvalidCoordinate", row |-> r, col |-> c, val |-> v,
          write |-> FALSE]
    ELSE [outcome |-> "Success", row |-> r, col |-> c, val |-> v, write |-> TRUE]

\* the loop body without the occupied-cell test
MoveResultNoOccupiedCheck(r, c, v, cell) ==
    IF r = 0
    THEN [outcome |-> "QuitRequested", row |-> r, col |-> NoInput, val |-> NoInput,
          write |-> FALSE]
    ELSE IF c = 0
    THEN [outcome |-> "QuitRequested", row |-> r, col |-> c, val |-> NoInput,
          write |-> FALSE]
    ELSE IF v = 0
    THEN [outcome |-> "QuitRequested", row |-> r, col |-> c, val |-> v,
          write |-> FALSE]
    ELSE IF r < 1 \/ r > N \/ c < 1 \/ c > N \/ v < 1 \/ v > N
    THEN [outcome |-> "InvalidCoordinate", row |-> r, col |-> c, val |-> v,
          write |-> FALSE]
    ELSE [outcome |-> "Success", row |-> r, col |-> c, val |-> v, write |-> TRUE]

\* one pass through the body of the move loop, lines 380-412, for the inputs
\* r, c, v; cell is what line 393 read
MoveResult(r, c, v, cell) ==
    IF r = 0
    THEN [outcome |-> "QuitRequested", row |-> r, col |-> NoInput, val |-> NoInput,
          write |-> FALSE]
    ELSE IF c = 0
    THEN [outcome |-> "QuitRequested", row |-> r, col |-> c, val |-> NoInput,
          write |-> FALSE]
    ELSE IF cell = FaultRead
    THEN [outcome |-> "Fault", row |-> r, col |-> c, val |-> NoInput,
          write |-> FALSE]
    ELSE IF cell # 0
    THEN [outcome |-> "CellOccupied", row |-> r, col |-> c, val |-> NoInput,
          write |-> FALSE]
    ELSE IF v = 0
    THEN [outcome |-> "QuitRequested", row |-> r, col |-> c, val |-> v,
          write |-> FALSE]
    ELSE IF r < 1 \/ r > N \/ c < 1 \/ c > N \/ v < 1 \/ v > N
    THEN [outcome |-> "InvalidCoordinate", row |-> r, col |-> c, val |-> v,
          write |-> FALSE]
    ELSE [outcome |-> "Success", row |-> r, col |-> c, val |-> v, write |-> TRUE]

\* the write without the - 1 of the indexes
WriteCellOffByOne(r, c, v) == [unsolved EXCEPT ![r % N][c % N] = v]

\* line 412: board.unsolved[row - 1][col - 1] = val
WriteCell(r, c, v) == [unsolved EXCEPT ![r - 1][c - 1] = v]

Move ==
    /\ pc = "Playing"
    /\ \E t \in UserTargets : \E v \in UserValues(t[1], t[2]) :
       \E cell \in ReadCell(t[1], t[2]) :
         LET m == MoveResult(t[1], t[2], v, cell)
         IN  /\ outcome' = m.outcome
             /\ row' = m.row /\ col' = m.col /\ val' = m.val
             /\ unsolved' = IF m.write THEN WriteCell(m.row, m.col, m.val)
                                       ELSE unsolved
    /\ pc' = "MoveDone"
    /\ UNCHANGED <<emptyCells, solved, holdrand, diag, bi, bj, stack, ret, count>>

\* where a pass through the loop body leaves: goto HomeScreen, continue, the
\* win check of line 414 followed by the loop test of line 375
AfterMove ==
    CASE outcome = "QuitRequested" -> "HomeScreen"
      [] outcome = "Fault" -> "Aborted"
      [] OTHER -> IF isBoardSolved THEN "HomeScreen" ELSE "Playing"

NextIteration ==
    /\ pc = "MoveDone"
    /\ pc' = AfterMove
    /\ row' = NoInput /\ col' = NoInput /\ val' = NoInput
    /\ outcome' = "None"
    /\ UNCHANGED <<emptyCells, solved, unsolved, holdrand, diag, bi, bj, stack,
                   ret, count>>

Next == HomeScreen \/ StartGame \/ Generate \/ Move \/ NextIteration

Spec == Init /\ [][Next]_vars

\* a running program takes its next step; the prompts wait for the user
LiveSpec == Spec /\ WF_vars(Generate)

\* ---- the backtracking fill on its own, from seeded grids ----
\* the k-th cell of diagonal box b holds a rotation of 1..N by shift
SeedValue(b, k, shift) == ((k * (2 ^ b) + shift) % N) + 1

SeededBoard(shift) ==
    [i \in Idx |-> [j \in Idx |->
        IF i \div MINI_BOX_SIZE = j \div MINI_BOX_SIZE
        THEN SeedValue(i \div MINI_BOX_SIZE,
                       (i % MINI_BOX_SIZE) * MINI_BOX_SIZE + (j % MINI_BOX_SIZE),
                       shift[i \div MINI_BOX_SIZE])
        ELSE 0]]

\* fillValues of a first session after fillDiagonal returned
InitFill ==
    /\ pc = "fillRemaining"
    /\ emptyCells = EASY_LVL
    /\ solved = ZeroBoard
    /\ \E shift \in [0 .. (N \div MINI_BOX_SIZE) - 1 -> 0 .. MaxShift] :
          unsolved = SeededBoard(shift)
    /\ holdrand = 0
    /\ diag = 0 /\ bi = 0 /\ bj = 0
    /\ stack = << [i |-> 0, j |-> MINI_BOX_SIZE, num |-> 0] >>
    /\ ret = "none"
    /\ count = 0
    /\ row = NoInput /\ col = NoInput /\ val = NoInput
    /\ outcome = "None"

NextFill ==
    \/ FillRemainingEnter \/ FillRemainingSkip \/ FillRemainingPlace
    \/ FillRemainingUndo \/ FillRemainingFail \/ FillRemainingReturn
    \/ FillValuesCopy

SpecFill == InitFill /\ [][NextFill]_vars

\* ======================= properties =======================
InSession == pc \in {"Playing", "MoveDone"}

\* every non-zero puzzle cell equals the solution cell
Consistent ==
    \A i \in Idx : \A j \in Idx : unsolved[i][j] # 0 => unsolved[i][j] = solved[i][j]

Digits == 1 .. N
BoxStarts == {b * MINI_BOX_SIZE : b \in 0 .. (N \div MINI_BOX_SIZE) - 1}
BoxOffsets == 0 .. MINI_BOX_SIZE - 1

\* g has no empty cell and each row, column and box holds each digit once
ValidSolution(g) ==
    /\ \A i \in Idx : \A j \in Idx : g[i][j] \in Digits
    /\ \A i \in Idx : \A d \in Digits : Cardinality({j \in Idx : g[i][j] = d}) = 1
    /\ \A j \in Idx : \A d \in Digits : Cardinality({i \in Idx : g[i][j] = d}) = 1
    /\ \A r \in BoxStarts : \A c \in BoxStarts : \A d \in Digits :
          Cardinality({o \in BoxOffsets \X BoxOffsets : g[r + o[1]][c + o[2]] = d}) = 1

InDiagonalBox(i, j) == i \div MINI_BOX_SIZE = j \div MINI_BOX_SIZE

\* C1: for every seeding of the three diagonal boxes, the top-level call
\* fillRemaining(0, 3) returns true, and the grid fillValues stores as the
\* solution has no empty cell and holds each of 1..9 exactly once in every row,
\* column and box.
C1_SolutionValid ==
    /\ (pc = "fillRemaining" /\ stack = << >>) => ret = "true"
    /\ pc = "addEmptyCells" => (solved = unsolved /\ ValidSolution(solved))

C1_Witness ==
    /\ pc = "addEmptyCells"
    /\ ValidSolution(solved)
    /\ solved[0][0] = MaxShift + 1
    /\ solved[N - 1][N - 1] # N

\* the cells outside the diagonal boxes, in row-major order
FreeCells == {c \in CellIds : ~InDiagonalBox(c \div N, c % N)}
FreeSeq ==
    [k \in 1 .. Cardinality(FreeCells) |->
        CHOOSE c \in FreeCells : Cardinality({d \in FreeCells : d < c}) = k - 1]
FreeCount == Cardinality(FreeCells)

\* the activation records are the first cells of FreeSeq in order; a call that
\* has not started yet holds the coordinates its caller passed
FramesInOrder ==
    \A k \in 1 .. Len(stack) :
        IF stack[k].num >= 1
        THEN /\ k <= FreeCount
             /\ stack[k].i \in Idx /\ stack[k].j \in Idx
             /\ stack[k].i * N + stack[k].j = FreeSeq[k]
        ELSE /\ k = Len(stack)
             /\ IF k = 1 THEN stack[k].i = 0 /\ stack[k].j = MINI_BOX_SIZE
                ELSE stack[k].i = stack[k - 1].i /\ stack[k].j = stack[k - 1].j + 1

\* the cells written so far are those of the records below the innermost one
WrittenCells ==
    LET written == IF ret = "true" THEN FreeCount
                   ELSE IF ret = "false" THEN Len(stack)
                   ELSE Len(stack) - 1
    IN  \A k \in 1 .. FreeCount :
            (unsolved[FreeSeq[k] \div N][FreeSeq[k] % N] # 0) <=> (k <= written)

\* C9: started as fillRemaining(0, 3) on a seeded grid, the fill writes (and
\* resets) only the 54 cells outside the diagonal boxes, in row-major order,
\* never a cell of a diagonal box, never an index outside 0..8, and it reports
\* success exactly when it advances past cell (8, 5).
C9_FillFrame ==
    /\ [](pc = "fillRemaining" => (FramesInOrder /\ WrittenCells))
    /\ [][pc = "fillRemaining" =>
            /\ \A i \in Idx : \A j \in Idx :
                  InDiagonalBox(i, j) => unsolved'[i][j] = unsolved[i][j]
            /\ (ret = "none" /\ ret' = "true") <=>
                  (stack # << >> /\ Top = [i |-> N - 1, j |-> N - MINI_BOX_SIZE, num |-> 0])
         ]_vars

C9_Witness ==
    /\ pc = "fillRemaining"
    /\ ret = "true"
    /\ Len(stack) = FreeCount
    /\ Top.i = N - 1 /\ Top.j = N - MINI_BOX_SIZE - 1

\* C2: when fillValues returns with emptyCells = k, the puzzle has exactly
\* 81 - k non-zero cells and each of them equals the solution cell.
C2_Carved ==
    (pc = "addEmptyCells" /\ count = 0) =>
        /\ Cardinality(FilledIds) = N * N - emptyCells
        /\ Cardinality({c \in CellIds : unsolved[c \div N][c % N] = 0
                                        /\ solved[c \div N][c % N] # 0}) = emptyCells
        /\ Consistent

C2_Witness ==
    /\ pc = "addEmptyCells" /\ count = 0
    /\ emptyCells = HARD_LVL
    /\ Cardinality(EmptyIds) = HARD_LVL

\* C3 as stated: in every state of a playing session every non-zero puzzle
\* cell equals the solution cell.
C3_Original == InSession => Consistent

\* a move that wrote a value other than the solution's
WroteOther ==
    /\ pc = "Playing" /\ outcome' = "Success"
    /\ val' # solved[row' - 1][col' - 1]

\* C3 amended: every non-zero puzzle cell equals the solution cell when the
\* session starts, and a step of the session keeps that unless it is a
\* successful move that wrote a value other than the solution's.
C3_Amended ==
    [][(InSession' /\ (InSession => Consistent) /\ ~WroteOther) => Consistent']_vars

C3_Witness ==
    /\ pc = "MoveDone" /\ outcome = "Success"
    /\ Consistent
    /\ MovesMade = 2

\* C4: a move whose target (row and column in 1..9) is non-zero reports
\* CellOccupied and changes no cell of the puzzle or the solution.
C4_Occupied ==
    [][(pc = "Playing" /\ pc' = "MoveDone" /\ InRange(row', col')
          /\ unsolved[row' - 1][col' - 1] # 0)
        => (outcome' = "CellOccupied" /\ val' = NoInput
            /\ unsolved' = unsolved /\ solved' = solved)]_vars

C4_Witness ==
    /\ pc = "MoveDone" /\ outcome = "CellOccupied"
    /\ InRange(row, col) /\ unsolved[row - 1][col - 1] # 0

\* an input that was read and lies outside 1..9
Entered(x) == x # NoInput
OutOfRange(x) == Entered(x) /\ (x < 1 \/ x > N)

\* C5 as stated: a move with row = 0, or with any of row, column, value
\* outside 1..9, reports InvalidCoordinate and does not change the puzzle.
C5_Original ==
    [][(pc = "Playing" /\ pc' = "MoveDone"
          /\ (OutOfRange(row') \/ OutOfRange(col') \/ OutOfRange(val')))
        => (outcome' = "InvalidCoordinate" /\ unsolved' = unsolved)]_vars

\* C5 amended: a move with any of row, column, value outside 1..9 never changes
\* the puzzle. It reports InvalidCoordinate when row and column are in 1..9,
\* the target is empty and the value is non-zero and outside 1..9; a 0 that is
\* read (row, column or value) reports QuitRequested; a non-zero row or column
\* outside 1..9 reports CellOccupied, InvalidCoordinate or QuitRequested, or the
\* read outside the grid faults.
C5_Amended ==
    [][(pc = "Playing" /\ pc' = "MoveDone"
          /\ (OutOfRange(row') \/ OutOfRange(col') \/ OutOfRange(val')))
        => /\ unsolved' = unsolved
           /\ (row' = 0 \/ col' = 0 \/ val' = 0) => outcome' = "QuitRequested"
           /\ (InRange(row', col') /\ val' # 0) => outcome' = "InvalidCoordinate"
           /\ (row' # 0 /\ col' # 0 /\ ~InRange(row', col')) =>
                 outcome' \in {"CellOccupied", "InvalidCoordinate",
                               "QuitRequested", "Fault"}
       ]_vars

C5_Witness ==
    /\ pc = "MoveDone" /\ outcome = "InvalidCoordinate"
    /\ InRange(row, col) /\ val = N + 1

\* C6: the occupied-cell check and the write only access puzzle cells whose
\* row and column indexes are both in 0..8 (the check of line 393 runs as soon
\* as a non-zero column was read).
C6_Claim ==
    (pc = "MoveDone" /\ Entered(col) /\ col # 0) => InRange(row, col)

\* C7: the session is won exactly when every puzzle cell is non-zero and
\* equals the solution cell; when every move so far wrote the solution's value
\* that is after the emptyCells-th successful move and not before.
C7_Solved ==
    InSession =>
        /\ isBoardSolved <=> (unsolved = solved /\ EmptyIds = {})
        /\ Consistent => (isBoardSolved <=> MovesMade = emptyCells)
        /\ pc = "Playing" => ~isBoardSolved
        /\ (pc = "MoveDone" /\ outcome = "Success") =>
              ((AfterMove = "HomeScreen") <=> (unsolved = solved))

C7_Witness ==
    /\ pc = "MoveDone" /\ outcome = "Success"
    /\ unsolved = solved
    /\ MovesMade = emptyCells
    /\ emptyCells = MEDIUM_LVL

\* C8: every Start Game, after any earlier session and for any difficulty
\* choice, begins seeding on an all-zero puzzle with a carve target in
\* {13, 29, 41}, and eventually reaches the playing state.
C8_StartsPlaying ==
    /\ []((pc = "fillBox" /\ diag = 0 /\ bi = 0 /\ bj = 0) =>
            (unsolved = ZeroBoard /\ emptyCells \in {EASY_LVL, MEDIUM_LVL, HARD_LVL}))
    /\ (pc = "fillBox") ~> (pc = "Playing")

\* a later session (the solution of an earlier one is still stored), started
\* with an invalid choice or Easy, whose seeding and backtracking have ended
C8_Witness ==
    /\ pc = "fillRemaining" /\ stack = << >> /\ ret = "true"
    /\ emptyCells = EASY_LVL
    /\ solved # ZeroBoard /\ solved # unsolved

\* C10: in a session a non-zero puzzle cell never changes, a successful move
\* fills exactly one empty cell, and once a cell differs from the solution the
\* board stays unsolved for the rest of the session, which returns to the menu
\* only by a quit.
C10_WriteOnce ==
    [][InSession =>
         /\ InSession' =>
               \A i \in Idx : \A j \in Idx :
                   unsolved[i][j] # 0 => unsolved'[i][j] = unsolved[i][j]
         /\ (pc = "Playing" /\ outcome' = "Success") =>
               Cardinality(EmptyIds') = Cardinality(EmptyIds) - 1
         /\ ~Consistent =>
               /\ ~isBoardSolved'
               /\ InSession' => ~Consistent'
               /\ pc' = "HomeScreen" => outcome = "QuitRequested"
      ]_vars

C10_Witness ==
    /\ pc = "Playing"
    /\ ~Consistent
    /\ EmptyIds = {}
====
